---- MODULE Spec2Model ----
(***************************************************************************)
(* Model of script.py: image sorting by colour analysis.                   *)
(*                                                                         *)
(* Real numbers (hue in degrees, saturation, value, weights) are held as   *)
(* integers in fixed point.  File names are sequences of one-character     *)
(* strings, so that the extension filter, os.path.splitext and the         *)
(* formatting of the sequence number are computed and not assumed.         *)
(***************************************************************************)
EXTENDS Integers, Sequences, FiniteSets, TLC

VARIABLES
    pc,                 \* position of main: listdir, analyze, rename, done, crashed
    posix,              \* the platform's os.rename replaces an existing target
    folder,             \* the directory folder_path: file name -> file content
    images,             \* main's list `images`
    image_categorized,  \* main's list `image_categorized`
    i,                  \* the enumerate index of the rename loop
    error,              \* the exception that ended the run, or "none"
    stdout,             \* the lines main printed in this run
    run,                \* number of the current run of the script
    folder0,            \* the folder as it was when the current run started
    collided,           \* a rename of this run found its target present
    prev,               \* how the previous run ended and the names it gave
    probe               \* a single call of one of the pure functions

vars == <<pc, posix, folder, images, image_categorized, i, error, stdout,
          run, folder0, collided, prev, probe>>

mainVars == <<pc, posix, folder, images, image_categorized, i, error, stdout,
              run, folder0, collided, prev>>

----------------------------------------------------------------------------
(* Bounds of the model *)

MaxFiles == 3

MaxRuns == 2

ChanSteps == 6

----------------------------------------------------------------------------
(* Fixed point *)

\* hue, saturation and value are held in units of 1e-4
FP == 10 ^ 4

\* palette weights are held in tenths
WeightUnit == 2 * 5

Range(s) == {s[n] : n \in DOMAIN s}

----------------------------------------------------------------------------
(* Configuration *)

categories_order == <<"earthy", "warm", "bright", "cool", "muted">>

supported_exts ==
    << <<".", "p", "n", "g">>, <<".", "j", "p", "g">>, <<".", "j", "p", "e", "g">>,
       <<".", "b", "m", "p">>, <<".", "g", "i", "f">> >>

----------------------------------------------------------------------------
(* rgb_to_hsv *)

Max2(a, b) == IF a >= b THEN a ELSE b

Min2(a, b) == IF a <= b THEN a ELSE b

\* Mutant: the hue of the red-max branch without the reduction modulo 360.
rgb_to_hsv_nomod(rgb) ==
    LET r == rgb[1]
        g == rgb[2]
        b == rgb[3]
        mx == Max2(r, Max2(g, b))
        mn == Min2(r, Min2(g, b))
        diff == mx - mn
        h == IF diff = 0 THEN 0
             ELSE IF mx = r THEN (60 * (g - b) * FP) \div diff + 360 * FP
             ELSE IF mx = g THEN ((60 * (b - r) * FP) \div diff + 120 * FP) % (360 * FP)
             ELSE ((60 * (r - g) * FP) \div diff + 240 * FP) % (360 * FP)
        s == IF mx = 0 THEN 0 ELSE (diff * FP) \div mx
        v == (mx * FP) \div 255
    IN  <<h, s, v>>

\* rgb holds the three channels in 0..255; dividing all three by 255.0 leaves
\* the ratios (g - b) / diff and diff / mx unchanged, and makes v = mx / 255.
rgb_to_hsv(rgb) ==
    LET r == rgb[1]
        g == rgb[2]
        b == rgb[3]
        mx == Max2(r, Max2(g, b))
        mn == Min2(r, Min2(g, b))
        diff == mx - mn
        h == IF diff = 0 THEN 0
             ELSE IF mx = r THEN ((60 * (g - b) * FP) \div diff + 360 * FP) % (360 * FP)
             ELSE IF mx = g THEN ((60 * (b - r) * FP) \div diff + 120 * FP) % (360 * FP)
             ELSE ((60 * (r - g) * FP) \div diff + 240 * FP) % (360 * FP)
        s == IF mx = 0 THEN 0 ELSE (diff * FP) \div mx
        v == (mx * FP) \div 255
    IN  <<h, s, v>>

----------------------------------------------------------------------------
(* analyze_colors *)

RECURSIVE SumSeq(_)
SumSeq(s) == IF s = <<>> THEN 0 ELSE s[1] + SumSeq(Tail(s))

\* palette is a sequence of colours, weights the sequence of their weights
analyze_colors(palette, weights) ==
    LET n == Min2(Len(palette), Len(weights))
        hsv(k) == rgb_to_hsv(palette[k])
        hues == [k \in 1..n |-> (hsv(k)[1] * weights[k]) \div WeightUnit]
        sats == [k \in 1..n |-> (hsv(k)[2] * weights[k]) \div WeightUnit]
        vals == [k \in 1..n |-> (hsv(k)[3] * weights[k]) \div WeightUnit]
    IN  <<SumSeq(hues), SumSeq(sats), SumSeq(vals)>>

----------------------------------------------------------------------------
(* categorize_color *)

\* Mutant: the warm range closed one unit short of 60 degrees.
categorize_color_hue_lt(hue, sat, val) ==
    LET warm == (hue < 60 * FP) \/ (hue >= 300 * FP)
    IN  IF warm /\ 10 * sat < 5 * FP /\ 3 * FP < 10 * val /\ 10 * val < 7 * FP
            THEN "earthy"
        ELSE IF 10 * sat > 6 * FP /\ 10 * val > 7 * FP THEN "bright"
        ELSE IF 10 * sat < 3 * FP /\ 10 * val < 5 * FP THEN "muted"
        ELSE IF warm THEN "warm"
        ELSE "cool"

\* Mutant: the saturation threshold of the earthy rule made inclusive.
categorize_color_sat_le(hue, sat, val) ==
    LET warm == (hue <= 60 * FP) \/ (hue >= 300 * FP)
    IN  IF warm /\ 10 * sat <= 5 * FP /\ 3 * FP < 10 * val /\ 10 * val < 7 * FP
            THEN "earthy"
        ELSE IF 10 * sat > 6 * FP /\ 10 * val > 7 * FP THEN "bright"
        ELSE IF 10 * sat < 3 * FP /\ 10 * val < 5 * FP THEN "muted"
        ELSE IF warm THEN "warm"
        ELSE "cool"

\* Mutant: the final branch returns a name that categories_order lacks.
categorize_color_neutral(hue, sat, val) ==
    LET warm == (hue <= 60 * FP) \/ (hue >= 300 * FP)
    IN  IF warm /\ 10 * sat < 5 * FP /\ 3 * FP < 10 * val /\ 10 * val < 7 * FP
            THEN "earthy"
        ELSE IF 10 * sat > 6 * FP /\ 10 * val > 7 * FP THEN "bright"
        ELSE IF 10 * sat < 3 * FP /\ 10 * val < 5 * FP THEN "muted"
        ELSE IF warm THEN "warm"
        ELSE "neutral"

\* sat < 0.5 is written 10 * sat < 5 * FP, and so on for each threshold
categorize_color(hue, sat, val) ==
    LET warm == (hue <= 60 * FP) \/ (hue >= 300 * FP)
    IN  IF warm /\ 10 * sat < 5 * FP /\ 3 * FP < 10 * val /\ 10 * val < 7 * FP
            THEN "earthy"
        ELSE IF 10 * sat > 6 * FP /\ 10 * val > 7 * FP THEN "bright"
        ELSE IF 10 * sat < 3 * FP /\ 10 * val < 5 * FP THEN "muted"
        ELSE IF warm THEN "warm"
        ELSE "cool"

----------------------------------------------------------------------------
(* File names *)

\* str.lower(), on the letters that occur in the file names of the model
LowerChar(c) ==
    CASE c = "J" -> "j"
      [] c = "P" -> "p"
      [] c = "G" -> "g"
      [] c = "N" -> "n"
      [] OTHER -> c

Lower(f) == [k \in 1..Len(f) |-> LowerChar(f[k])]

\* str.endswith() for one suffix
EndsWith(f, suffix) ==
    /\ Len(f) >= Len(suffix)
    /\ SubSeq(f, Len(f) - Len(suffix) + 1, Len(f)) = suffix

\* f.lower().endswith(supported_exts)
IsImageName(f) == \E e \in Range(supported_exts) : EndsWith(Lower(f), e)

\* str.rfind("."): the last position of a dot, 0 when there is none
LastDot(f) ==
    IF \E k \in 1..Len(f) : f[k] = "."
        THEN CHOOSE k \in 1..Len(f) : f[k] = "." /\ \A m \in (k + 1)..Len(f) : f[m] # "."
        ELSE 0

\* os.path.splitext() of a name without directory part: the extension starts
\* at the last dot, unless only dots precede that dot
splitext(f) ==
    LET d == LastDot(f)
    IN  IF d > 0 /\ \E k \in 1..(d - 1) : f[k] # "."
            THEN <<SubSeq(f, 1, d - 1), SubSeq(f, d, Len(f))>>
            ELSE <<f, <<>> >>

DigitChar == <<"0", "1", "2", "3", "4", "5", "6", "7", "8", "9">>

\* the decimal digits of a natural number, as f"{i}" formats it
RECURSIVE DecStr(_)
DecStr(n) ==
    IF n < 10 THEN <<DigitChar[n + 1]>>
    ELSE DecStr(n \div 10) \o <<DigitChar[(n % 10) + 1]>>

\* Mutant: the sequence number alone, the extension dropped.
new_name_noext(n, filename) == DecStr(n)

\* ext = os.path.splitext(filename)[1]; new_name = f"{i}{ext}"
new_name(n, filename) == DecStr(n) \o splitext(filename)[2]

\* the names a folder of the model may hold when the script is first run
InitialNames ==
    { <<"b", ".", "J", "P", "G">>, <<"1", ".", "p", "n", "g">>,
      <<"2", ".", "p", "n", "g">>, <<".", "p", "n", "g">>,
      <<"n", ".", "t", "x", "t">> }

----------------------------------------------------------------------------
(* File contents and extract_palette *)

\* "X" is a file that PIL cannot open, "T" is the content of the text file
ImageContents == {"A", "B", "C", "D", "W", "M", "X"}

Uniform(rgb) == <<rgb, rgb, rgb, rgb, rgb>>

\* Image.open + KMeans(n_clusters=5, random_state=42): deterministic in the
\* file content; it raises on a file that is no image.
extract_palette(content) ==
    CASE content = "A" ->
            [ok |-> TRUE, palette |-> Uniform(<<240, 40, 0>>), weights |-> <<4, 3, 1, 1, 1>>]
      [] content = "B" ->
            [ok |-> TRUE, palette |-> Uniform(<<120, 72, 80>>), weights |-> <<2, 2, 2, 2, 2>>]
      [] content = "C" ->
            [ok |-> TRUE, palette |-> Uniform(<<120, 76, 72>>), weights |-> <<6, 1, 1, 1, 1>>]
      [] content = "D" ->
            [ok |-> TRUE,
             palette |-> << <<0, 0, 200>>, <<0, 120, 180>>, <<30, 30, 60>>,
                            <<100, 100, 160>>, <<10, 20, 30>> >>,
             weights |-> <<4, 2, 2, 1, 1>>]
      [] content = "W" ->
            [ok |-> TRUE,
             palette |-> << <<150, 60, 0>>, <<160, 40, 10>>, <<150, 60, 0>>,
                            <<90, 30, 0>>, <<200, 100, 20>> >>,
             weights |-> <<3, 3, 2, 1, 1>>]
      [] content = "M" ->
            [ok |-> TRUE, palette |-> Uniform(<<40, 40, 40>>), weights |-> <<2, 2, 2, 2, 2>>]
      [] OTHER ->
            [ok |-> FALSE, palette |-> <<>>, weights |-> <<>>]

\* the body of the analysis loop for one file: the record main appends
Analyse(img_file, content) ==
    LET ex == extract_palette(content)
        avg == analyze_colors(ex.palette, ex.weights)
    IN  [img_file |-> img_file,
         category |-> categorize_color(avg[1], avg[2], avg[3]),
         avg_hue |-> avg[1], avg_sat |-> avg[2], avg_val |-> avg[3]]

----------------------------------------------------------------------------
(* The sort of main *)

\* categories_order.index(c), 0-based; -1 stands for the ValueError it raises
IndexOf(c) ==
    IF \E k \in DOMAIN categories_order : categories_order[k] = c
        THEN (CHOOSE k \in DOMAIN categories_order :
                /\ categories_order[k] = c
                /\ \A m \in 1..(k - 1) : categories_order[m] # c) - 1
        ELSE -1

\* Mutant: the key holds the category alone, the hue is not compared.
KeyLess_nohue(x, y) == IndexOf(x.category) < IndexOf(y.category)

\* the order of the keys (categories_order.index(x[1]), x[2]): tuples compare
\* by their first components, then by their second
KeyLess(x, y) ==
    \/ IndexOf(x.category) < IndexOf(y.category)
    \/ /\ IndexOf(x.category) = IndexOf(y.category)
       /\ x.avg_hue < y.avg_hue

\* x put behind every element of the sorted list s whose key is not greater
RECURSIVE Insert(_, _)
Insert(x, s) ==
    IF s = <<>> THEN <<x>>
    ELSE IF KeyLess(x, s[1]) THEN <<x>> \o s
    ELSE <<s[1]>> \o Insert(x, Tail(s))

\* list.sort(key=...): a stable sort, here by insertion from the left
RECURSIVE SortFrom(_, _)
SortFrom(s, done) ==
    IF s = <<>> THEN done ELSE SortFrom(Tail(s), Insert(s[1], done))

Sort(s) == SortFrom(s, <<>>)

----------------------------------------------------------------------------
(* main *)

NoProbe == [fn |-> "none", args |-> <<>>, result |-> <<>>]

\* the sequences that hold each element of S once: the orders os.listdir may
\* return the names in
Perms(S) ==
    {s \in [1..Cardinality(S) -> S] : \A a, b \in 1..Cardinality(S) : a # b => s[a] # s[b]}

\* a folder of at most MaxFiles files; the text file holds text, every other
\* file any of the image contents
Folders ==
    UNION { [names -> ImageContents \cup {"T"}] :
              names \in {ns \in SUBSET InitialNames : Cardinality(ns) <= MaxFiles} }

Init ==
    /\ pc = "listdir"
    /\ posix \in BOOLEAN
    /\ folder \in {f \in Folders : \A n \in DOMAIN f : f[n] = "T" <=> ~IsImageName(n)}
    /\ images = <<>>
    /\ image_categorized = <<>>
    /\ i = 1
    /\ error = "none"
    /\ stdout = <<>>
    /\ run = 1
    /\ folder0 = folder
    /\ collided = FALSE
    /\ prev = [pc |-> "none", names |-> <<>>]
    /\ probe = NoProbe

\* images = [f for f in os.listdir(folder_path) if f.lower().endswith(...)]
Listdir ==
    /\ pc = "listdir"
    /\ \E order \in Perms({n \in DOMAIN folder : IsImageName(n)}) : images' = order
    /\ pc' = "analyze"
    /\ UNCHANGED <<posix, folder, image_categorized, i, error, stdout, run,
                   folder0, collided, prev, probe>>

\* Mutant: each file is renamed as soon as it is analysed.
AnalyzeStepEager ==
    /\ pc = "analyze"
    /\ Len(image_categorized) < Len(images)
    /\ LET img_file == images[Len(image_categorized) + 1]
           rec == Analyse(img_file, folder[img_file])
           dst == new_name(Len(image_categorized) + 1, img_file)
       IN  /\ image_categorized' = Append(image_categorized, rec)
           /\ stdout' = Append(stdout, <<"analysed", rec>>)
           /\ folder' = [n \in (DOMAIN folder \ {img_file}) \cup {dst} |->
                            IF n = dst THEN folder[img_file] ELSE folder[n]]
           /\ UNCHANGED <<pc, error>>
    /\ UNCHANGED <<posix, images, i, run, folder0, collided, prev, probe>>

\* one iteration of `for img_file in images`; an exception of extract_palette
\* is caught nowhere and ends the run
AnalyzeStep ==
    /\ pc = "analyze"
    /\ Len(image_categorized) < Len(images)
    /\ LET img_file == images[Len(image_categorized) + 1]
           rec == Analyse(img_file, folder[img_file])
       IN  IF extract_palette(folder[img_file]).ok
               THEN /\ image_categorized' = Append(image_categorized, rec)
                    /\ stdout' = Append(stdout, <<"analysed", rec>>)
                    /\ UNCHANGED <<pc, error>>
               ELSE /\ pc' = "crashed"
                    /\ error' = "UnidentifiedImageError"
                    /\ UNCHANGED <<image_categorized, stdout>>
    /\ UNCHANGED <<posix, folder, images, i, run, folder0, collided, prev, probe>>

\* image_categorized.sort(key=...), reached when the analysis loop is over;
\* the rename loop over an empty list ends the run at once
SortStep ==
    /\ pc = "analyze"
    /\ Len(image_categorized) = Len(images)
    /\ IF \E k \in DOMAIN image_categorized : IndexOf(image_categorized[k].category) < 0
           THEN /\ pc' = "crashed"
                /\ error' = "ValueError"
                /\ UNCHANGED image_categorized
           ELSE /\ image_categorized' = Sort(image_categorized)
                /\ pc' = IF image_categorized = <<>> THEN "done" ELSE "rename"
                /\ UNCHANGED error
    /\ i' = 1
    /\ UNCHANGED <<posix, folder, images, stdout, run, folder0, collided, prev, probe>>

\* one iteration of the rename loop.  os.rename(src, dst): a missing src
\* raises; src = dst changes nothing; a dst that exists is replaced on POSIX
\* and raises FileExistsError on Windows
RenameStep ==
    /\ pc = "rename"
    /\ i <= Len(image_categorized)
    /\ LET src == image_categorized[i].img_file
           dst == new_name(i, src)
           hit == dst \in DOMAIN folder /\ dst # src
       IN  /\ collided' = (collided \/ hit)
           /\ IF src \notin DOMAIN folder
                  THEN /\ pc' = "crashed"
                       /\ error' = "FileNotFoundError"
                       /\ UNCHANGED <<folder, stdout, i>>
              ELSE IF hit /\ ~posix
                  THEN /\ pc' = "crashed"
                       /\ error' = "FileExistsError"
                       /\ UNCHANGED <<folder, stdout, i>>
              ELSE /\ folder' = [n \in (DOMAIN folder \ {src}) \cup {dst} |->
                                    IF n = dst THEN folder[src] ELSE folder[n]]
                   /\ stdout' = Append(stdout, <<"renamed", src, dst>>)
                   /\ i' = i + 1
                   /\ pc' = IF i = Len(image_categorized) THEN "done" ELSE "rename"
                   /\ UNCHANGED error
    /\ UNCHANGED <<posix, images, image_categorized, run, folder0, prev, probe>>

\* the new names of the "Renamed ..." lines of this run, in order
RenamedTo ==
    LET lines == SelectSeq(stdout, LAMBDA l : l[1] = "renamed")
    IN  [k \in 1..Len(lines) |-> lines[k][3]]

\* the script is started again on the folder as the last run left it
Rerun ==
    /\ pc \in {"done", "crashed"}
    /\ run < MaxRuns
    /\ run' = run + 1
    /\ pc' = "listdir"
    /\ images' = <<>>
    /\ image_categorized' = <<>>
    /\ i' = 1
    /\ error' = "none"
    /\ stdout' = <<>>
    /\ folder0' = folder
    /\ collided' = FALSE
    /\ prev' = [pc |-> pc, names |-> RenamedTo]
    /\ UNCHANGED <<posix, folder, probe>>

Next == Listdir \/ AnalyzeStep \/ SortStep \/ RenameStep \/ Rerun

Spec == Init /\ [][Next]_vars

----------------------------------------------------------------------------
(* Single calls of the pure functions, on inputs around every threshold *)

Thresholds(ts, unit) == {(t * FP) \div unit + d : t \in ts, d \in {-1, 0, 1}}

HueGrid == {0, 180 * FP, 360 * FP - 1} \cup Thresholds({60, 300}, 1)

SatGrid == {0, (49 * FP) \div 100, FP} \cup Thresholds({3, 5, 6}, 10)

ValGrid == {0, FP} \cup Thresholds({3, 5, 7}, 10)

Channels == {(255 * k) \div ChanSteps : k \in 0..ChanSteps}

InitFn ==
    /\ pc = "idle"
    /\ posix = TRUE
    /\ folder = [n \in {} |-> "T"]
    /\ images = <<>>
    /\ image_categorized = <<>>
    /\ i = 1
    /\ error = "none"
    /\ stdout = <<>>
    /\ run = 1
    /\ folder0 = folder
    /\ collided = FALSE
    /\ prev = [pc |-> "none", names |-> <<>>]
    /\ probe = NoProbe

CallCategorize ==
    /\ \E hue \in HueGrid, sat \in SatGrid, val \in ValGrid :
          probe' = [fn |-> "categorize_color", args |-> <<hue, sat, val>>,
                    result |-> categorize_color(hue, sat, val)]
    /\ UNCHANGED mainVars

CallRgbToHsv ==
    /\ \E r \in Channels, g \in Channels, b \in Channels :
          probe' = [fn |-> "rgb_to_hsv", args |-> <<r, g, b>>,
                    result |-> rgb_to_hsv(<<r, g, b>>)]
    /\ UNCHANGED mainVars

NextFn == CallCategorize \/ CallRgbToHsv

SpecFn == InitFn /\ [][NextFn]_vars

----------------------------------------------------------------------------
(* Claims about the pure functions, under SpecFn *)

\* C1: categorize_color is the ordered decision list: a category is returned
\* exactly when its rule holds and no earlier rule does, and an input on a
\* threshold of a rule does not satisfy that rule.
C1_DecisionList ==
    probe.fn = "categorize_color" =>
        LET hue == probe.args[1]
            sat == probe.args[2]
            val == probe.args[3]
            isWarm == hue <= 60 * FP \/ hue >= 300 * FP
            earthy == isWarm /\ 2 * sat < FP /\ 3 * FP < 10 * val /\ 10 * val < 7 * FP
            bright == 5 * sat > 3 * FP /\ 10 * val > 7 * FP
            muted == 10 * sat < 3 * FP /\ 2 * val < FP
        IN  /\ (probe.result = "earthy") <=> earthy
            /\ (probe.result = "bright") <=> (~earthy /\ bright)
            /\ (probe.result = "muted") <=> (~earthy /\ ~bright /\ muted)
            /\ (probe.result = "warm") <=> (~earthy /\ ~bright /\ ~muted /\ isWarm)
            /\ (probe.result = "cool") <=> (~earthy /\ ~bright /\ ~muted /\ ~isWarm)
            /\ (2 * sat = FP \/ 10 * val = 3 * FP \/ 10 * val = 7 * FP)
                   => probe.result # "earthy"
            /\ (5 * sat = 3 * FP \/ 10 * val = 7 * FP) => probe.result # "bright"
            /\ (10 * sat = 3 * FP \/ 2 * val = FP) => probe.result # "muted"

\* a warm hue with saturation exactly 0.5 and value inside the earthy band:
\* the earthy rule is missed on its threshold and the input falls to warm
C1_Witness ==
    /\ probe.fn = "categorize_color"
    /\ probe.args = <<60 * FP, FP \div 2, FP \div 2>>
    /\ probe.result = "warm"

\* C2, as amended: (60, 0.49, 0.5) is earthy and (60.0001, 0.49, 0.5) is cool.
C2_HueBoundary ==
    probe.fn = "categorize_color" =>
        /\ probe.args = <<60 * FP, (49 * FP) \div 100, FP \div 2>>
               => probe.result = "earthy"
        /\ probe.args = <<60 * FP + 1, (49 * FP) \div 100, FP \div 2>>
               => probe.result = "cool"

C2_Witness ==
    /\ probe.fn = "categorize_color"
    /\ probe.args = <<60 * FP + 1, (49 * FP) \div 100, FP \div 2>>

\* C2, as stated: (60, 0.49, 0.5) is earthy and (60.0001, 0.49, 0.5) is warm.
C2_AsStated ==
    probe.fn = "categorize_color" =>
        /\ probe.args = <<60 * FP, (49 * FP) \div 100, FP \div 2>>
               => probe.result = "earthy"
        /\ probe.args = <<60 * FP + 1, (49 * FP) \div 100, FP \div 2>>
               => probe.result = "warm"

\* C8: rgb_to_hsv returns a hue in [0, 360) and a saturation and a value in
\* [0, 1], whichever channel is maximal and whatever the sign of the
\* difference of the other two; the hue lies in the sector of the maximal
\* channel, red before green before blue when channels tie.
C8_HsvRange ==
    probe.fn = "rgb_to_hsv" =>
        /\ 0 <= probe.result[1] /\ probe.result[1] < 360 * FP
        /\ 0 <= probe.result[2] /\ probe.result[2] <= FP
        /\ 0 <= probe.result[3] /\ probe.result[3] <= FP
        /\ LET r == probe.args[1]
               g == probe.args[2]
               b == probe.args[3]
               h == probe.result[1]
           IN  IF r >= g /\ r >= b THEN h <= 60 * FP \/ h >= 300 * FP
               ELSE IF g >= b THEN 60 * FP <= h /\ h <= 180 * FP
               ELSE 180 * FP <= h /\ h <= 300 * FP

\* red is maximal and green is below blue: the signed difference is negative
C8_Witness ==
    /\ probe.fn = "rgb_to_hsv"
    /\ probe.args[1] > probe.args[3]
    /\ probe.args[3] > probe.args[2]
    /\ probe.result[1] >= 300 * FP

----------------------------------------------------------------------------
(* Claims about main, under Spec *)

\* the sort of this run has just been done: image_categorized holds its
\* output, which the rename loop only reads
Sorted == pc = "rename" /\ i = 1

\* the records in the order the analysis loop appended them: the first lines
\* main printed
PreSort == [k \in 1..Len(images) |-> stdout[k][2]]

\* the place of a category in the priority list
Priority(c) == CHOOSE k \in 1..5 : <<"earthy", "warm", "bright", "cool", "muted">>[k] = c

\* the place a file had in the list before the sort
PlaceBefore(f) == CHOOSE k \in 1..Len(images) : PreSort[k].img_file = f

\* C3: the sort orders the records by category priority, then by hue; its
\* output is a permutation of its input; records of equal category and hue
\* keep their order; (A, bright, 10), (B, earthy, 350), (C, earthy, 5) become
\* C, B, A.
C3_SortOrder ==
    Sorted =>
        LET out == image_categorized
            N == Len(out)
        IN  /\ N = Len(images)
            /\ \A k \in 1..N : \E m \in 1..N : out[m] = PreSort[k]
            /\ \A a, b \in 1..N : a < b =>
                  \/ Priority(out[a].category) < Priority(out[b].category)
                  \/ /\ out[a].category = out[b].category
                     /\ out[a].avg_hue <= out[b].avg_hue
            /\ \A a, b \in 1..N :
                  (a < b /\ out[a].category = out[b].category
                         /\ out[a].avg_hue = out[b].avg_hue)
                      => PlaceBefore(out[a].img_file) < PlaceBefore(out[b].img_file)
            /\ ( /\ N = 3
                 /\ [k \in 1..3 |-> <<PreSort[k].category, PreSort[k].avg_hue>>]
                        = << <<"bright", 10 * FP>>, <<"earthy", 350 * FP>>,
                             <<"earthy", 5 * FP>> >> )
                   => [k \in 1..3 |-> out[k].img_file]
                        = <<PreSort[3].img_file, PreSort[2].img_file, PreSort[1].img_file>>

\* the sort has run on the three records of the example
C3_Witness ==
    /\ Sorted
    /\ Len(images) = 3
    /\ [k \in 1..3 |-> <<PreSort[k].category, PreSort[k].avg_hue>>]
           = << <<"bright", 10 * FP>>, <<"earthy", 350 * FP>>, <<"earthy", 5 * FP>> >>

\* the sort has run on two records of equal category and hue
C3_WitnessTie ==
    /\ Sorted
    /\ \E a, b \in DOMAIN image_categorized :
          /\ a < b
          /\ image_categorized[a].category = image_categorized[b].category
          /\ image_categorized[a].avg_hue = image_categorized[b].avg_hue

\* C4, as stated: a rename whose target exists as another file ends the run
\* without replacing it, and no file of the folder is lost.
C4_NoOverwrite ==
    /\ collided => (pc = "crashed" /\ error = "FileExistsError")
    /\ Cardinality(DOMAIN folder) = Cardinality(DOMAIN folder0)

\* C5, as stated: when the analysis of one image fails, every other image of
\* the batch is still analysed and the run goes on to sort them.
C5_FailureIsolated ==
    (pc \in {"done", "crashed"} /\ \E f \in Range(images) : folder0[f] = "X")
        => /\ \A f \in Range(images) :
                 folder0[f] # "X" => \E k \in DOMAIN stdout :
                                        stdout[k][1] = "analysed" /\ stdout[k][2].img_file = f
           /\ error # "UnidentifiedImageError"

\* C6: every record of the working collection has one of the five categories
\* of categories_order, and the key lookup of the sort never raises.
C6_Total ==
    /\ \A k \in DOMAIN image_categorized :
          \E m \in DOMAIN categories_order :
              image_categorized[k].category = categories_order[m]
    /\ error # "ValueError"

\* the sort has run on records of three categories, the last branch of
\* categorize_color among them
C6_Witness ==
    /\ Sorted
    /\ \E k \in DOMAIN image_categorized : image_categorized[k].category = "cool"
    /\ \E k \in DOMAIN image_categorized : image_categorized[k].category = "muted"
    /\ \E k \in DOMAIN image_categorized : image_categorized[k].category = "warm"

C9_TwoPhases ==
    /\ [](((pc = "analyze" \/ error = "UnidentifiedImageError")
             => /\ folder = folder0
                /\ Len(image_categorized) <= Len(images)
                /\ \A k \in DOMAIN image_categorized :
                      image_categorized[k].img_file = images[k]))
    /\ [][folder' # folder =>
             /\ pc = "rename"
             /\ Len(image_categorized) = Len(images)
             /\ \A f \in Range(images) :
                   \E k \in DOMAIN image_categorized : image_categorized[k].img_file = f]_vars

\* the second of three renames has changed the folder
C9_Witness ==
    /\ pc = "rename"
    /\ i = 3
    /\ Len(images) = 3
    /\ folder # folder0

\* the sort key of a file content
KeyOf(content) ==
    LET rec == Analyse(<<>>, content) IN <<rec.category, rec.avg_hue>>

\* the previous run completed, the names it gave are all in the folder, and
\* the files under them have pairwise distinct sort keys
C10_Renumbered ==
    /\ run >= 2
    /\ prev.pc = "done"
    /\ prev.names # <<>>
    /\ Range(prev.names) \subseteq DOMAIN folder0
    /\ \A a, b \in DOMAIN prev.names :
          a # b => KeyOf(folder0[prev.names[a]]) # KeyOf(folder0[prev.names[b]])

\* every rename this run has made had its source equal to its target, and a
\* completed run leaves the folder as it found it
C10_Unchanged ==
    /\ \A k \in DOMAIN stdout : stdout[k][1] = "renamed" => stdout[k][2] = stdout[k][3]
    /\ pc \in {"done", "crashed"} => (pc = "done" /\ folder = folder0)

====
